---- MODULE Spec2Model ----
(***************************************************************************)
(* memprofilerx: the sampling tracker of src/src/memprofilerx/tracker.py.  *)
(*                                                                         *)
(* One tracked call is modelled: the decorator factory (track_memory or    *)
(* global_tracker) validates its configuration, the wrapper acquires the   *)
(* process handle, starts the monitor thread, runs the unit of work, sets  *)
(* the stop event, joins with a timeout and then either builds the         *)
(* aggregate (track_memory) or runs the export sinks (global_tracker).     *)
(* The monitor thread and the wrapper are two processes whose steps        *)
(* interleave freely; time is a discrete clock advanced by Tick.           *)
(*                                                                         *)
(* Time.  time.time() - start_time is the variable elapsed; it counts the  *)
(* ticks since the monitor took start_time and saturates at MaxTime, which *)
(* is larger than every configured duration, so that every comparison the  *)
(* code makes (timestamp >= duration) is exact.  The clock is taken to be  *)
(* non-decreasing.  time.sleep(interval) and thread.join(timeout=5.0) are  *)
(* count-down timers.  Nothing else in the code bounds how long a step of  *)
(* either thread takes, so any number of ticks may pass between two steps. *)
(*                                                                         *)
(* analyze_live_objects is a specification of its own (CensusSpec): one    *)
(* call on a heap of objects, from the validation of min_size_kb through   *)
(* the loop over gc.get_objects() to the filtered mapping it returns.      *)
(*                                                                         *)
(* Three more specifications stand beside it.  ReporterSpec: a series is   *)
(* exported, through the JSON sink and `memx convert` or by a call of      *)
(* plot_memory, export_to_csv or export_to_html (reporter.py, cli.py).     *)
(* RunSpec: the `memx run` command from its arguments to its exit code.    *)
(* CallsSpec: several calls of one decorated function, each with the       *)
(* objects its wrapper creates, in every interleaving.                     *)
(***************************************************************************)
EXTENDS Integers, Sequences, FiniteSets, TLC

\* ---------------------------------------------------------------- bounds
MaxInterval == 2
MaxDuration == 1
MaxSamples == 2
\* elapsed saturates at MaxTime; workRan, the time the unit of work has been
\* running, at WorkCap
MaxTime == MaxDuration + 1
WorkCap == MaxInterval + 1
\* analyze_live_objects: the heap has at most MaxObjects objects, min_size_kb
\* is at most MaxThreshold
MaxObjects == 3
MaxThreshold == 2
\* the export functions: a series has at most MaxRows samples
MaxRows == 3

\* ------------------------------------------------------ program constants
\* thread.join(timeout=5.0)
JoinTimeout == 5

\* -------------------------------------------------------------- inputs
Kinds == {"track_memory", "global_tracker"}
IntervalVals == -1 .. MaxInterval
\* Optional[float]: <<>> is None, <<d>> is the number d
DurationVals == {<<>>} \cup {<<d>> : d \in -1 .. MaxDuration}
MemVals == {10}
ResultVals == {"r1", "r2"}
\* type(obj).__name__, sys.getsizeof(obj) in bytes (an object the collector
\* tracks has a header of 16 bytes, so no size is below that), min_size_kb
TypeNames == {"list", "dict"}
SizeVals == {16, 1024, 2048}
ThresholdVals == -2 .. MaxThreshold
\* an object of the heap: sys.getsizeof(obj) raises, or returns size
ObjectVals ==
    {[type_name |-> t, size |-> s, raises |-> FALSE] :
        t \in TypeNames, s \in SizeVals}
    \cup {[type_name |-> t, size |-> 0, raises |-> TRUE] : t \in TypeNames}
HeapVals == UNION {[1 .. n -> ObjectVals] : n \in 0 .. MaxObjects}

VARIABLES
    kind, interval, duration, callback, analyze_gc,
    export_png, export_json, export_csv,
    opc, spc,
    mem_data, stop_event, monitor_error,
    result, workOutcome, outcome, returned, live_objects, files,
    elapsed, workRan, sleepLeft, joinLeft,
    workCalls, joinAttempted, joinTimedOut, warned, sinkTried,
    cbLog, handedOff, longWork, readFailed,
    lateSamples, lateCallback, lateSleep,
    min_size_kb, heap, objects, idx, stats, apc, aOutcome, analysis,
    entry, format, series, rpc, input_file, validation, rdata, rfunc,
    parent_made, output_file, rOutcome, exit_code,
    script, spec_loader, run_interval, run_format, program, tracked,
    exports, upc, run_exit,
    call_pc, mem_data_of, stop_event_of, thread_of

\* kind .. export_csv   the arguments of the decorator factory
\* opc, spc             where the wrapper and the monitor thread are
\* mem_data, stop_event, monitor_error   the wrapper's locals the two share
\* result, workOutcome  what the unit of work did
\* outcome, returned    what the caller of the wrapper observes
\* live_objects, files  the census attached, the sinks whose file was written
\* elapsed              time.time() - start_time of the monitor
\* sleepLeft, joinLeft  what is left of time.sleep(interval), of the join timeout
\* history only: workRan (how long the unit of work has been running),
\* longWork (it ran longer than one interval), workCalls, joinAttempted,
\* joinTimedOut, warned, sinkTried, cbLog (the callback invocations),
\* handedOff (the series has been returned or read for export),
\* readFailed (process.memory_info() has raised in the monitor),
\* lateSamples (the samples appended with the stop event set), lateCallback
\* (time has passed inside a callback with the stop event set), lateSleep
\* (the time slept with the stop event set)
\* a call of analyze_live_objects:
\* min_size_kb          its argument
\* heap                 the objects the garbage collector tracks
\* objects, idx         the list gc.get_objects() returned, the loop's position
\* stats                the defaultdict of the counts and byte sums per type
\* apc                  where the call is
\* aOutcome, analysis   how the call ended, the mapping it returned
\* the export functions (reporter.py, the JSON sink, `memx convert`):
\* entry                what is called: the JSON sink followed by convert, or
\*                      one of plot_memory, export_to_csv, export_to_html
\* format               the --format option of convert
\* series               the series exported
\* rpc                  where the export is
\* input_file           the JSON file the sink wrote and convert reads
\* validation           what convert's format validation said
\* rdata, rfunc         the mem_data argument of the reporter function called,
\*                      and which function it is
\* parent_made          the function has created the parent directory
\* output_file          the file at the function's output_path
\* rOutcome, exit_code  how the function ended, the exit code of convert
\* `memx run` (cli.py):
\* script               the script argument: its file is found, is missing,
\*                      or vanishes once the arguments are parsed
\* spec_loader          importlib finds a loader for the script
\* run_interval         the --interval option
\* run_format           the --format option
\* exports              the formats that got an output path
\* program              what the script did when it was executed
\* tracked              how the call of the tracked execute_script ended
\* upc                  where the command is
\* run_exit             the exit code of the command
\* several tracked calls of one decorated function:
\* call_pc              where each call's wrapper is
\* mem_data_of          the mem_data list each call created
\* stop_event_of        the stop_event each call created
\* thread_of            the monitor thread each call created

config == <<kind, interval, duration, callback, analyze_gc,
            export_png, export_json, export_csv>>
timers == <<elapsed, workRan, sleepLeft, joinLeft>>
ghosts == <<workCalls, joinAttempted, joinTimedOut, warned, sinkTried,
            cbLog, handedOff, longWork, readFailed,
            lateSamples, lateCallback, lateSleep>>
census == <<min_size_kb, heap, objects, idx, stats, apc, aOutcome, analysis>>
reporter == <<entry, format, series, rpc, input_file, validation, rdata, rfunc,
              parent_made, output_file, rOutcome, exit_code>>
runner == <<script, spec_loader, run_interval, run_format, program, tracked,
           exports, upc, run_exit>>
calls == <<call_pc, mem_data_of, stop_event_of, thread_of>>
\* what the steps of the tracker leave alone
besideTracker == <<census, reporter, runner, calls>>
vars == <<config, census, reporter, runner, calls, opc, spc, mem_data, stop_event, monitor_error,
          result, workOutcome, outcome, returned, live_objects, files,
          timers, ghosts>>

\* ------------------------------------------------------------- helpers
Last(s) == s[Len(s)]

\* mutant: the test `interval < 0`, which lets interval 0 through
IntervalValidOffByOne(i) == ~(i < 0)

\* `if interval <= 0: raise ValueError` (track_memory and global_tracker)
IntervalValid(i) == ~(i <= 0)

\* `if duration is not None and duration <= 0: raise ValueError`
DurationValid(d) == ~(d # <<>> /\ d[1] <= 0)

ConfigValid ==
    IF kind = "track_memory"
    THEN IntervalValid(interval) /\ DurationValid(duration)
    ELSE IntervalValid(interval)

\* mutant: the test `timestamp > duration`
DurationReachedStrict(d, ts) == d # <<>> /\ d[1] # 0 /\ ts > d[1]

\* `if duration and timestamp >= duration`
DurationReached(d, ts) == d # <<>> /\ d[1] # 0 /\ ts >= d[1]

\* mutant: the loop is `while True:`
StopIgnored == FALSE

\* `while not stop_event.is_set()`
StopObserved == stop_event

\* mutant: thread.join() with no timeout
JoinWithoutTimeout == spc = "done"

\* thread.join(timeout=5.0) returns when the thread has ended or the timeout
\* has run out
JoinMayReturn == spc = "done" \/ joinLeft = 0

\* thread.is_alive()
IsAlive == spc \notin {"idle", "done"}

\* the monitor has taken start_time, so elapsed is running
ClockRunning == spc \notin {"idle", "init"}

\* defaultdict(lambda: {"count": 0, "total_size": 0}) with no key yet
NoStats == [t \in {} |-> [count |-> 0, total_size |-> 0]]

\* the mapping of a call that has not returned
NoAnalysis == [t \in {} |-> [count |-> 0, total_size_kb |-> 0]]

\* no call of analyze_live_objects is under way
CensusIdle ==
    /\ min_size_kb = 0 /\ heap = <<>> /\ objects = <<>> /\ idx = 0
    /\ stats = NoStats /\ apc = "idle" /\ aOutcome = "pending"
    /\ analysis = NoAnalysis

\* no file at a path
NoFile == [kind |-> "none", rows |-> <<>>]

\* no export is under way
ReporterIdle ==
    /\ entry = "none" /\ format = "none" /\ series = <<>> /\ rpc = "idle"
    /\ input_file = NoFile /\ validation = "pending" /\ rdata = <<>>
    /\ rfunc = "none" /\ parent_made = FALSE /\ output_file = NoFile
    /\ rOutcome = "pending" /\ exit_code = -1

\* no `memx run` is under way
RunnerIdle ==
    /\ script = "none" /\ spec_loader = FALSE /\ run_interval = 1
    /\ run_format = "none" /\ program = "not_run" /\ tracked = "pending"
    /\ exports = {} /\ upc = "idle" /\ run_exit = -1

\* the calls of the decorated function
MaxCalls == 2
Calls == 1 .. MaxCalls

\* no call of the decorated function has been made
CallsIdle ==
    /\ call_pc = [c \in Calls |-> "idle"]
    /\ mem_data_of = [c \in Calls |-> <<>>]
    /\ stop_event_of = [c \in Calls |-> FALSE]
    /\ thread_of = [c \in Calls |-> "none"]

NoReturn == [shape |-> "none", result |-> "unset", memory_usage |-> <<>>,
             live_objects |-> "absent"]

Init ==
    /\ kind \in Kinds
    /\ interval \in IntervalVals
    /\ IF kind = "track_memory"
       THEN /\ duration \in DurationVals
            /\ callback \in BOOLEAN
            /\ analyze_gc \in BOOLEAN
            /\ export_png = FALSE /\ export_json = FALSE /\ export_csv = FALSE
       ELSE /\ duration = <<>>
            /\ callback = FALSE
            /\ analyze_gc = FALSE
            /\ export_png \in BOOLEAN
            /\ export_json \in BOOLEAN
            /\ export_csv \in BOOLEAN
    /\ opc = "decorate"
    /\ spc = "idle"
    /\ mem_data = <<>>
    /\ stop_event = FALSE
    /\ monitor_error = "None"
    /\ result = "unset"
    /\ workOutcome = "none"
    /\ outcome = "pending"
    /\ returned = NoReturn
    /\ live_objects = "absent"
    /\ files = {}
    /\ elapsed = 0 /\ workRan = 0 /\ sleepLeft = 0 /\ joinLeft = 0
    /\ workCalls = 0
    /\ joinAttempted = FALSE /\ joinTimedOut = FALSE /\ warned = FALSE
    /\ sinkTried = {}
    /\ cbLog = <<>>
    /\ handedOff = FALSE
    /\ longWork = FALSE
    /\ readFailed = FALSE
    /\ lateSamples = 0 /\ lateCallback = FALSE /\ lateSleep = 0
    /\ CensusIdle
    /\ ReporterIdle
    /\ RunnerIdle
    /\ CallsIdle


\* ------------------------------------------------- the wrapper (caller)
\* track_memory(...) / global_tracker(...): the decorator factory validates
\* the configuration before any wrapper exists
Decorate ==
    /\ opc = "decorate"
    /\ IF ConfigValid
       THEN /\ opc' = "wrapper"
            /\ outcome' = outcome
       ELSE /\ opc' = "done"
            /\ outcome' = "ValueError"
    /\ UNCHANGED <<config, besideTracker, spc, mem_data, stop_event, monitor_error, result,
                   workOutcome, returned, live_objects, files, timers, ghosts>>

\* mutant: psutil.Process() is called inside the try, so that its failure
\* runs the finally block
AcquireProcessInsideTry ==
    /\ opc = "wrapper"
    /\ \E ok \in BOOLEAN :
         IF ok
         THEN /\ opc' = "start"
              /\ workOutcome' = workOutcome
         ELSE /\ opc' = "finally"
              /\ workOutcome' = "raised"
    /\ mem_data' = <<>>
    /\ stop_event' = FALSE
    /\ monitor_error' = "None"
    /\ UNCHANGED <<config, besideTracker, spc, result, outcome, returned, live_objects,
                   files, timers, ghosts>>

\* wrapper: psutil.Process() succeeds, or raises NoSuchProcess/AccessDenied and
\* the wrapper raises RuntimeError; then mem_data = [], stop_event = Event()
AcquireProcess ==
    /\ opc = "wrapper"
    /\ \E ok \in BOOLEAN :
         IF ok
         THEN /\ opc' = "start"
              /\ outcome' = outcome
         ELSE /\ opc' = "done"
              /\ outcome' = "RuntimeError"
    /\ mem_data' = <<>>
    /\ stop_event' = FALSE
    /\ monitor_error' = "None"
    /\ UNCHANGED <<config, besideTracker, spc, result, workOutcome, returned, live_objects,
                   files, timers, ghosts>>

\* thread = threading.Thread(target=monitor, daemon=True); thread.start()
StartThread ==
    /\ opc = "start"
    /\ spc = "idle"
    /\ spc' = "init"
    /\ opc' = "call"
    /\ UNCHANGED <<config, besideTracker, mem_data, stop_event, monitor_error, result,
                   workOutcome, outcome, returned, live_objects, files,
                   timers, ghosts>>

\* result = func(*args, **kwargs): the call is made
CallFunc ==
    /\ opc = "call"
    /\ opc' = "work"
    /\ workCalls' = workCalls + 1
    /\ UNCHANGED <<config, besideTracker, spc, mem_data, stop_event, monitor_error, result,
                   workOutcome, outcome, returned, live_objects, files, timers,
                   joinAttempted, joinTimedOut, warned, sinkTried, cbLog,
                   handedOff, longWork, readFailed, lateSamples, lateCallback,
                   lateSleep>>

\* func returns a value
WorkReturn ==
    /\ opc = "work"
    /\ \E r \in ResultVals : result' = r
    /\ workOutcome' = "returned"
    /\ opc' = "finally"
    /\ workRan' = 0
    /\ UNCHANGED <<config, besideTracker, spc, mem_data, stop_event, monitor_error, outcome,
                   returned, live_objects, files, elapsed, sleepLeft, joinLeft,
                   ghosts>>

\* func raises: `except Exception` logs and re-raises
WorkRaise ==
    /\ opc = "work"
    /\ workOutcome' = "raised"
    /\ opc' = "finally"
    /\ workRan' = 0
    /\ UNCHANGED <<config, besideTracker, spc, mem_data, stop_event, monitor_error, result,
                   outcome, returned, live_objects, files, elapsed, sleepLeft,
                   joinLeft, ghosts>>

\* mutant: the finally block joins without stop_event.set()
SetStopSkipped ==
    /\ opc = "finally"
    /\ stop_event' = stop_event
    /\ opc' = "join"
    /\ joinLeft' = JoinTimeout
    /\ UNCHANGED <<config, besideTracker, spc, mem_data, monitor_error, result,
                   workOutcome, outcome, returned, live_objects, files,
                   elapsed, workRan, sleepLeft, ghosts>>

\* finally: stop_event.set(), and thread.join(timeout=5.0) begins
SetStop ==
    /\ opc = "finally"
    /\ stop_event' = TRUE
    /\ opc' = "join"
    /\ joinLeft' = JoinTimeout
    /\ UNCHANGED <<config, besideTracker, spc, mem_data, monitor_error, result, workOutcome,
                   outcome, returned, live_objects, files, elapsed, workRan,
                   sleepLeft, ghosts>>

\* thread.join(timeout=5.0) returns
JoinReturn ==
    /\ opc = "join"
    /\ JoinMayReturn
    /\ opc' = "is_alive"
    /\ joinAttempted' = TRUE
    /\ joinTimedOut' = (spc # "done")
    /\ joinLeft' = 0
    /\ UNCHANGED <<config, besideTracker, spc, mem_data, stop_event, monitor_error, result,
                   workOutcome, outcome, returned, live_objects, files,
                   elapsed, workRan, sleepLeft, workCalls, warned, sinkTried,
                   cbLog, handedOff, longWork, readFailed, lateSamples, lateCallback,
                   lateSleep>>

\* mutant: a unit of work that raised is called once more
AfterJoinRetries ==
    IF kind = "track_memory"
    THEN IF workOutcome = "raised"
         THEN (IF workCalls < 2 THEN "call" ELSE "reraise")
         ELSE "check_error"
    ELSE "export_png"

\* mutant: the monitor_error test comes first, inside the finally block
AfterJoinErrorFirst ==
    IF kind = "track_memory" THEN "check_error" ELSE "export_png"

\* where the wrapper goes when its finally block (up to the is_alive warning)
\* is over
AfterJoin ==
    IF kind = "track_memory"
    THEN IF workOutcome = "raised" THEN "reraise" ELSE "check_error"
    ELSE "export_png"

\* if thread.is_alive(): logger.warning(...)
CheckAlive ==
    /\ opc = "is_alive"
    /\ warned' = IsAlive
    /\ opc' = AfterJoin
    /\ UNCHANGED <<config, besideTracker, spc, mem_data, stop_event, monitor_error, result,
                   workOutcome, outcome, returned, live_objects, files, timers,
                   workCalls, joinAttempted, joinTimedOut, sinkTried, cbLog,
                   handedOff, longWork, readFailed, lateSamples, lateCallback,
                   lateSleep>>

\* the exception of the unit of work leaves the wrapper
Reraise ==
    /\ opc = "reraise"
    /\ outcome' = "WorkFailure"
    /\ opc' = "done"
    /\ UNCHANGED <<config, besideTracker, spc, mem_data, stop_event, monitor_error, result,
                   workOutcome, returned, live_objects, files, timers, ghosts>>

\* mutant: the census comes before the monitor_error test
CheckMonitorErrorLate ==
    /\ opc = "check_error"
    /\ outcome' = outcome
    /\ opc' = IF analyze_gc THEN "census" ELSE "return"
    /\ UNCHANGED <<config, besideTracker, spc, mem_data, stop_event, monitor_error, result,
                   workOutcome, returned, live_objects, files, timers, ghosts>>

\* `if monitor_error: raise RuntimeError(...)` (track_memory, lines 112-113)
CheckMonitorError ==
    /\ opc = "check_error"
    /\ IF monitor_error # "None"
       THEN /\ outcome' = "RuntimeError"
            /\ opc' = "done"
       ELSE /\ outcome' = outcome
            /\ opc' = IF analyze_gc THEN "census" ELSE "return"
    /\ UNCHANGED <<config, besideTracker, spc, mem_data, stop_event, monitor_error, result,
                   workOutcome, returned, live_objects, files, timers, ghosts>>

\* mutant: no try around analyze_live_objects(), the key is left out
CensusDropped(ok) == IF ok THEN "census" ELSE "absent"

\* output["live_objects"] = analyze_live_objects(), or {} when it raises
CensusAttached(ok) == IF ok THEN "census" ELSE "empty"

Census ==
    /\ opc = "census"
    /\ \E ok \in BOOLEAN : live_objects' = CensusAttached(ok)
    /\ opc' = "return"
    /\ UNCHANGED <<config, besideTracker, spc, mem_data, stop_event, monitor_error, result,
                   workOutcome, outcome, returned, files, timers, ghosts>>

\* return output: {"result": result, "memory_usage": mem_data[, "live_objects"]}
\* memory_usage is the list object the monitor appends to
ReturnAggregate ==
    /\ opc = "return"
    /\ returned' = [shape |-> "aggregate", result |-> result,
                    memory_usage |-> mem_data, live_objects |-> live_objects]
    /\ outcome' = "return"
    /\ handedOff' = TRUE
    /\ opc' = "done"
    /\ UNCHANGED <<config, besideTracker, spc, mem_data, stop_event, monitor_error, result,
                   workOutcome, live_objects, files, timers, workCalls,
                   joinAttempted, joinTimedOut, warned, sinkTried, cbLog,
                   longWork, readFailed, lateSamples, lateCallback,
                   lateSleep>>


\* --------------------------------- the export sinks of global_tracker
\* What one attempt of a sink can do.  plot_memory raises ValueError on an
\* empty series and the PNG block catches every Exception; the JSON and CSV
\* blocks catch OSError only, so any other exception raised while the file is
\* opened or written (ValueError for a path with an embedded null byte, for
\* one) leaves the finally block.
SinkOutcomes(sink) ==
    IF sink = "png"
    THEN IF mem_data = <<>> THEN {"caught"} ELSE {"written", "caught"}
    ELSE {"written", "caught", "escapes"}

\* the exception classes each sink's handler catches: TRUE when an exception
\* that is not an OSError is caught too
CatchesAll(sink) == sink = "png"

\* mutant: the `if export_...:` tests are missing, every sink is attempted
SinkStepAlways(sink, configured, next) ==
    \E o \in SinkOutcomes(sink) :
      /\ sinkTried' = sinkTried \cup {sink}
      /\ handedOff' = TRUE
      /\ files' = IF o = "written" THEN files \cup {sink} ELSE files
      /\ IF o = "escapes" /\ ~CatchesAll(sink)
         THEN /\ opc' = "done"
              /\ outcome' = "SinkFailure"
         ELSE /\ opc' = next
              /\ outcome' = outcome

SinkStep(sink, configured, next) ==
    IF ~configured
    THEN /\ opc' = next
         /\ UNCHANGED <<files, sinkTried, handedOff, outcome>>
    ELSE \E o \in SinkOutcomes(sink) :
           /\ sinkTried' = sinkTried \cup {sink}
           /\ handedOff' = TRUE
           /\ files' = IF o = "written" THEN files \cup {sink} ELSE files
           /\ IF o = "escapes" /\ ~CatchesAll(sink)
              THEN /\ opc' = "done"
                   /\ outcome' = "SinkFailure"
              ELSE /\ opc' = next
                   /\ outcome' = outcome

\* `if export_png:` ... plot_memory(mem_data, output_path=str(export_png))
ExportPng ==
    /\ opc = "export_png"
    /\ SinkStep("png", export_png, "export_json")
    /\ UNCHANGED <<config, besideTracker, spc, mem_data, stop_event, monitor_error, result,
                   workOutcome, returned, live_objects, timers, workCalls,
                   joinAttempted, joinTimedOut, warned, cbLog,
                   longWork, readFailed, lateSamples, lateCallback,
                   lateSleep>>

\* `if export_json:` ... json.dump(mem_data, f, indent=2)
ExportJson ==
    /\ opc = "export_json"
    /\ SinkStep("json", export_json, "export_csv")
    /\ UNCHANGED <<config, besideTracker, spc, mem_data, stop_event, monitor_error, result,
                   workOutcome, returned, live_objects, timers, workCalls,
                   joinAttempted, joinTimedOut, warned, cbLog,
                   longWork, readFailed, lateSamples, lateCallback,
                   lateSleep>>

\* `if export_csv:` ... f.write(...)
ExportCsv ==
    /\ opc = "export_csv"
    /\ SinkStep("csv", export_csv, "finish")
    /\ UNCHANGED <<config, besideTracker, spc, mem_data, stop_event, monitor_error, result,
                   workOutcome, returned, live_objects, timers, workCalls,
                   joinAttempted, joinTimedOut, warned, cbLog,
                   longWork, readFailed, lateSamples, lateCallback,
                   lateSleep>>

\* the finally block of global_tracker is over: `return result` completes, or
\* the exception of the unit of work leaves the wrapper
Finish ==
    /\ opc = "finish"
    /\ IF workOutcome = "returned"
       THEN /\ returned' = [shape |-> "value", result |-> result,
                            memory_usage |-> <<>>, live_objects |-> "absent"]
            /\ outcome' = "return"
       ELSE /\ returned' = returned
            /\ outcome' = "WorkFailure"
    /\ opc' = "done"
    /\ UNCHANGED <<config, besideTracker, spc, mem_data, stop_event, monitor_error, result,
                   workOutcome, live_objects, files, timers, ghosts>>

\* ------------------------------------------------- the monitor thread
\* timestamp and mem of the sample of the current iteration
timestamp == Last(mem_data)[1]

mem == Last(mem_data)[2]

\* start_time = time.time()
MonitorStart ==
    /\ spc = "init"
    /\ spc' = "check"
    /\ elapsed' = 0
    /\ UNCHANGED <<config, besideTracker, opc, mem_data, stop_event, monitor_error, result,
                   workOutcome, outcome, returned, live_objects, files,
                   workRan, sleepLeft, joinLeft, ghosts>>

\* `while not stop_event.is_set():` and, when it is not set, the call of
\* process.memory_info()
LoopCheck ==
    /\ spc = "check"
    /\ IF StopObserved
       THEN /\ spc' = "done"
            /\ elapsed' = 0
       ELSE /\ Len(mem_data) < MaxSamples
            /\ spc' = "read"
            /\ elapsed' = elapsed
    /\ UNCHANGED <<config, besideTracker, opc, mem_data, stop_event, monitor_error, result,
                   workOutcome, outcome, returned, live_objects, files,
                   workRan, sleepLeft, joinLeft, workCalls, joinAttempted, joinTimedOut, warned, sinkTried,
                   cbLog, handedOff, longWork, readFailed, lateSamples, lateCallback,
                   lateSleep>>

\* mutant: the `if callback:` block is missing
AfterAppendNoCallback ==
    IF kind = "track_memory" THEN "durcheck" ELSE "sleep"

\* where the monitor goes after appending a sample
AfterAppend ==
    IF kind = "track_memory"
    THEN IF callback THEN "callback" ELSE "durcheck"
    ELSE "sleep"

\* mutant: mem_data.insert(0, (timestamp, mem))
SampleInsertedFirst(m) == <<<<elapsed, m>>>> \o mem_data

\* mem = process.memory_info().rss / (1024 * 1024);
\* timestamp = time.time() - start_time; mem_data.append((timestamp, mem))
Sample(m) == Append(mem_data, <<elapsed, m>>)

ReadReturn ==
    /\ spc = "read"
    /\ \E m \in MemVals : mem_data' = Sample(m)
    /\ spc' = AfterAppend
    /\ sleepLeft' = IF AfterAppend = "sleep" THEN interval ELSE sleepLeft
    /\ lateSamples' = IF stop_event THEN lateSamples + 1 ELSE lateSamples
    /\ UNCHANGED <<config, besideTracker, opc, stop_event, monitor_error, result, workOutcome,
                   outcome, returned, live_objects, files, elapsed, workRan,
                   joinLeft, workCalls, joinAttempted, joinTimedOut, warned,
                   sinkTried, cbLog, handedOff, longWork, readFailed, lateCallback, lateSleep>>

\* mutant: track_memory's handler only logs and breaks, as global_tracker's
ReadErrorDropped == monitor_error

\* process.memory_info() raises: `except Exception as e: monitor_error = e;
\* break` (track_memory); global_tracker only logs and breaks
ReadErrorRecorded == IF kind = "track_memory" THEN "error" ELSE monitor_error

ReadRaise ==
    /\ spc = "read"
    /\ monitor_error' = ReadErrorRecorded
    /\ spc' = "done"
    /\ elapsed' = 0
    /\ readFailed' = TRUE
    /\ UNCHANGED <<config, besideTracker, opc, mem_data, stop_event, result, workOutcome,
                   outcome, returned, live_objects, files, workRan, sleepLeft,
                   joinLeft, workCalls, joinAttempted, joinTimedOut, warned,
                   sinkTried, cbLog, handedOff, longWork, lateSamples, lateCallback,
                   lateSleep>>

\* mutant: no try around the callback, so that the outer handler takes the
\* exception, records it and breaks
CallbackRaisedFatal == [pc |-> "done", error |-> "error"]

\* what a raising callback does to the monitor: the inner `except Exception`
\* logs and the loop goes on to the duration test
CallbackRaised == [pc |-> "durcheck", error |-> monitor_error]

\* callback(timestamp, mem) returns
CallbackReturn ==
    /\ spc = "callback"
    /\ cbLog' = Append(cbLog, [args |-> <<timestamp, mem>>, raised |-> FALSE])
    /\ spc' = "durcheck"
    /\ UNCHANGED <<config, besideTracker, opc, mem_data, stop_event, monitor_error, result,
                   workOutcome, outcome, returned, live_objects, files, timers,
                   workCalls, joinAttempted, joinTimedOut, warned, sinkTried,
                   handedOff, longWork, readFailed, lateSamples, lateCallback,
                   lateSleep>>

\* callback(timestamp, mem) raises
CallbackRaise ==
    /\ spc = "callback"
    /\ cbLog' = Append(cbLog, [args |-> <<timestamp, mem>>, raised |-> TRUE])
    /\ spc' = CallbackRaised.pc
    /\ monitor_error' = CallbackRaised.error
    /\ UNCHANGED <<config, besideTracker, opc, mem_data, stop_event, result, workOutcome,
                   outcome, returned, live_objects, files, timers, workCalls,
                   joinAttempted, joinTimedOut, warned, sinkTried,
                   handedOff, longWork, readFailed, lateSamples, lateCallback,
                   lateSleep>>

\* mutant: the duration test has no `break`
DurCheckNoBreak ==
    /\ spc = "durcheck"
    /\ spc' = "sleep"
    /\ sleepLeft' = interval
    /\ elapsed' = elapsed
    /\ UNCHANGED <<config, besideTracker, opc, mem_data, stop_event, monitor_error, result,
                   workOutcome, outcome, returned, live_objects, files,
                   workRan, joinLeft, ghosts>>

\* `if duration and timestamp >= duration: break`, else time.sleep(interval)
\* begins
DurCheck ==
    /\ spc = "durcheck"
    /\ IF DurationReached(duration, timestamp)
       THEN /\ spc' = "done"
            /\ sleepLeft' = sleepLeft
            /\ elapsed' = 0
       ELSE /\ spc' = "sleep"
            /\ sleepLeft' = interval
            /\ elapsed' = elapsed
    /\ UNCHANGED <<config, besideTracker, opc, mem_data, stop_event, monitor_error, result,
                   workOutcome, outcome, returned, live_objects, files,
                   workRan, joinLeft, ghosts>>

\* time.sleep(interval) returns
Wake ==
    /\ spc = "sleep"
    /\ sleepLeft = 0
    /\ spc' = "check"
    /\ UNCHANGED <<config, besideTracker, opc, mem_data, stop_event, monitor_error, result,
                   workOutcome, outcome, returned, live_objects, files, timers,
                   ghosts>>

\* ------------------------------------------------------------- the clock
\* one unit of time passes.  A clock that nothing reads any more stands
\* still: the join timer once the thread has ended (join returns at once
\* then), workRan once the unit of work is over, and elapsed once the monitor
\* has ended (the three are set to 0 at that point, as start_time and the
\* timers are dead from there on).
ElapsedRuns == ClockRunning /\ spc # "done" /\ elapsed < MaxTime

WorkRuns == opc = "work" /\ workRan < WorkCap

JoinRuns == joinLeft > 0 /\ spc # "done"

Tick ==
    /\ ElapsedRuns \/ WorkRuns \/ sleepLeft > 0 \/ JoinRuns
    /\ elapsed' = IF ElapsedRuns THEN elapsed + 1 ELSE elapsed
    /\ workRan' = IF WorkRuns THEN workRan + 1 ELSE workRan
    /\ sleepLeft' = IF sleepLeft > 0 THEN sleepLeft - 1 ELSE 0
    /\ joinLeft' = IF JoinRuns THEN joinLeft - 1 ELSE joinLeft
    /\ longWork' = (longWork \/ (opc = "work" /\ workRan >= interval))
    /\ lateCallback' = (lateCallback \/ (stop_event /\ spc = "callback"))
    /\ lateSleep' = IF stop_event /\ spc = "sleep" /\ sleepLeft > 0
                    THEN lateSleep + 1
                    ELSE lateSleep
    /\ UNCHANGED <<config, besideTracker, opc, spc, mem_data, stop_event, monitor_error,
                   result, workOutcome, outcome, returned, live_objects, files,
                   workCalls, joinAttempted, joinTimedOut, warned, sinkTried,
                   cbLog, handedOff, readFailed, lateSamples>>

WrapperNext ==
    \/ Decorate
    \/ AcquireProcess
    \/ StartThread
    \/ CallFunc
    \/ WorkReturn
    \/ WorkRaise
    \/ SetStop
    \/ JoinReturn
    \/ CheckAlive
    \/ Reraise
    \/ CheckMonitorError
    \/ Census
    \/ ReturnAggregate
    \/ ExportPng
    \/ ExportJson
    \/ ExportCsv
    \/ Finish

MonitorNext ==
    \/ MonitorStart
    \/ LoopCheck
    \/ ReadReturn
    \/ ReadRaise
    \/ CallbackReturn
    \/ CallbackRaise
    \/ DurCheck
    \/ Wake

Next == WrapperNext \/ MonitorNext \/ Tick

Spec == Init /\ [][Next]_vars


\* The wrapper's thread is scheduled and time passes; nothing is assumed of
\* the monitor thread, which may stay in any of its steps for ever.
FairSpec == Spec /\ WF_vars(WrapperNext) /\ WF_vars(Tick)

\* The monitor thread is scheduled and time passes: a reading of the
\* footprint and a callback that have begun come to their end, and a sleep
\* runs out.  Nothing is assumed of the wrapper.
MonitorFairSpec == Spec /\ WF_vars(MonitorNext) /\ WF_vars(Tick)

\* ------------------------------------------- analyze_live_objects
\* A call of analyze_live_objects(min_size_kb) made on its own, with no
\* tracked call under way: the tracker's variables stand still.
TrackerIdle ==
    /\ kind = "track_memory" /\ interval = 1 /\ duration = <<>>
    /\ callback = FALSE /\ analyze_gc = FALSE
    /\ export_png = FALSE /\ export_json = FALSE /\ export_csv = FALSE
    /\ opc = "idle" /\ spc = "idle"
    /\ mem_data = <<>> /\ stop_event = FALSE /\ monitor_error = "None"
    /\ result = "unset" /\ workOutcome = "none" /\ outcome = "pending"
    /\ returned = NoReturn /\ live_objects = "absent" /\ files = {}
    /\ elapsed = 0 /\ workRan = 0 /\ sleepLeft = 0 /\ joinLeft = 0
    /\ workCalls = 0
    /\ joinAttempted = FALSE /\ joinTimedOut = FALSE /\ warned = FALSE
    /\ sinkTried = {} /\ cbLog = <<>>
    /\ handedOff = FALSE /\ longWork = FALSE /\ readFailed = FALSE
    /\ lateSamples = 0 /\ lateCallback = FALSE /\ lateSleep = 0

tracker == <<config, opc, spc, mem_data, stop_event, monitor_error,
             result, workOutcome, outcome, returned, live_objects, files,
             timers, ghosts>>

\* what the steps of analyze_live_objects leave alone
besideCensus == <<tracker, reporter, runner, calls>>

CensusInit ==
    /\ TrackerIdle
    /\ ReporterIdle
    /\ RunnerIdle
    /\ CallsIdle
    /\ min_size_kb \in ThresholdVals
    /\ heap \in HeapVals
    /\ objects = <<>> /\ idx = 0
    /\ stats = NoStats
    /\ apc = "validate"
    /\ aOutcome = "pending"
    /\ analysis = NoAnalysis

\* mutant: the test `min_size_kb <= 0`, which rejects 0
ThresholdValidOffByOne(m) == ~(m <= 0)

\* `if min_size_kb < 0: raise ValueError`
ThresholdValid(m) == ~(m < 0)

\* lines 156-159: the argument is validated, then stats is created
Validate ==
    /\ apc = "validate"
    /\ IF ThresholdValid(min_size_kb)
       THEN /\ apc' = "enumerate"
            /\ aOutcome' = aOutcome
       ELSE /\ apc' = "done"
            /\ aOutcome' = "ValueError"
    /\ stats' = NoStats
    /\ UNCHANGED <<besideCensus, min_size_kb, heap, objects, idx, analysis>>

\* `for obj in gc.get_objects():` the list of the tracked objects is taken
Enumerate ==
    /\ apc = "enumerate"
    /\ objects' = heap
    /\ idx' = 1
    /\ apc' = "loop"
    /\ UNCHANGED <<besideCensus, min_size_kb, heap, stats, aOutcome, analysis>>

\* the object the loop is at
obj == objects[idx]

\* stats[type_name]["count"] += 1; stats[type_name]["total_size"] += size
Counted(st, type_name, size) ==
    IF type_name \in DOMAIN st
    THEN [st EXCEPT ![type_name] =
             [count |-> @.count + 1, total_size |-> @.total_size + size]]
    ELSE st @@ (type_name :> [count |-> 1, total_size |-> size])

\* the loop body when sys.getsizeof(obj) returns
CountObject ==
    /\ apc = "loop"
    /\ idx <= Len(objects)
    /\ ~obj.raises
    /\ stats' = Counted(stats, obj.type_name, obj.size)
    /\ idx' = idx + 1
    /\ UNCHANGED <<besideCensus, min_size_kb, heap, objects, apc, aOutcome,
                   analysis>>

\* mutant: no try around the loop body, the exception ends the call
SkipObjectAborts ==
    /\ apc = "loop"
    /\ idx <= Len(objects)
    /\ obj.raises
    /\ apc' = "done"
    /\ aOutcome' = "raise"
    /\ UNCHANGED <<besideCensus, min_size_kb, heap, objects, idx, stats,
                   analysis>>

\* the loop body when sys.getsizeof(obj) raises: both handlers `continue`
SkipObject ==
    /\ apc = "loop"
    /\ idx <= Len(objects)
    /\ obj.raises
    /\ idx' = idx + 1
    /\ UNCHANGED <<besideCensus, min_size_kb, heap, objects, stats, apc, aOutcome,
                   analysis>>

\* mutant: round(total_size / 1024, 1)
TotalSizeKbOneDecimal(total_size) ==
    LET q == (total_size * 10) \div 1024
        r == (total_size * 10) % 1024
    IN  10 * (IF r > 512 \/ (r = 512 /\ q % 2 = 1) THEN q + 1 ELSE q)

\* round(total_size / 1024, 2), in hundredths of a kilobyte: the quotient of
\* total_size * 100 by 1024 rounded to the nearest integer, a tie to the even
\* one (total_size / 1024 is exact in binary floating point)
TotalSizeKb(total_size) ==
    LET q == (total_size * 100) \div 1024
        r == (total_size * 100) % 1024
    IN  IF r > 512 \/ (r = 512 /\ q % 2 = 1) THEN q + 1 ELSE q

\* mutant: the test `data["total_size"] / 1024 >= min_size_kb`
KeptNonStrict(data, m) == data.total_size >= m * 1024

\* mutant: the filter `min_size_kb <= total < min_size_kb + 1` kilobytes, a
\* band that moves with the threshold
KeptBand(data, m) ==
    data.total_size >= m * 1024 /\ data.total_size < (m + 1) * 1024

\* `if data["total_size"] / 1024 > min_size_kb`
Kept(data, m) == data.total_size > m * 1024

\* the dict comprehension of the return statement
Report(st, m) ==
    [t \in {u \in DOMAIN st : Kept(st[u], m)} |->
        [count |-> st[t].count,
         total_size_kb |-> TotalSizeKb(st[t].total_size)]]

\* the loop is over: return {...}
Filter ==
    /\ apc = "loop"
    /\ idx > Len(objects)
    /\ analysis' = Report(stats, min_size_kb)
    /\ aOutcome' = "return"
    /\ apc' = "done"
    /\ UNCHANGED <<besideCensus, min_size_kb, heap, objects, idx, stats>>

\* analyze_live_objects as a function of the heap and the threshold: the
\* loop of lines 161-172 over the objects h[1 .. n], then the comprehension
RECURSIVE StatsOf(_, _)
StatsOf(h, n) ==
    IF n = 0
    THEN NoStats
    ELSE IF h[n].raises
         THEN StatsOf(h, n - 1)
         ELSE Counted(StatsOf(h, n - 1), h[n].type_name, h[n].size)

AnalyzeLiveObjects(h, m) == Report(StatsOf(h, Len(h)), m)

CensusNext ==
    \/ Validate
    \/ Enumerate
    \/ CountObject
    \/ SkipObject
    \/ Filter

CensusSpec == CensusInit /\ [][CensusNext]_vars

\* ------------------------------ the export functions and `memx convert`
\* A series is exported on its own, with no tracked call under way: either
\* the JSON sink of global_tracker writes it and `memx convert` reads the
\* file back, validates it and calls the reporter function of its --format,
\* or plot_memory, export_to_csv or export_to_html is called with it.
besideReporter == <<tracker, census, runner, calls>>

Entries == {"json_sink", "plot_memory", "export_to_csv", "export_to_html"}
FormatVals == {"png", "html", "csv", "xml", "PNG"}
TimestampVals == 0 .. 2
FootprintVals == {9, 12}
SampleVals == TimestampVals \X FootprintVals
SeriesVals == UNION {[1 .. n -> SampleVals] : n \in 0 .. MaxRows}

ReporterInit ==
    /\ TrackerIdle
    /\ CensusIdle
    /\ RunnerIdle
    /\ CallsIdle
    /\ entry \in Entries
    /\ format \in (IF entry = "json_sink" THEN FormatVals ELSE {"none"})
    /\ series \in SeriesVals
    /\ rpc = "call"
    /\ input_file = NoFile /\ validation = "pending" /\ rdata = <<>>
    /\ rfunc = "none" /\ parent_made = FALSE /\ output_file = NoFile
    /\ rOutcome = "pending" /\ exit_code = -1

\* float.__repr__ of a number, as json.dump and csv.writer write it: its
\* decimal digits
RECURSIVE FloatRepr(_)
FloatRepr(n) ==
    IF n < 10 THEN <<n>> ELSE Append(FloatRepr(n \div 10), n % 10)

\* float(text), as json.load reads a number: the value of the digits
RECURSIVE ParseFloat(_)
ParseFloat(text) ==
    IF Len(text) = 1
    THEN text[1]
    ELSE 10 * ParseFloat(SubSeq(text, 1, Len(text) - 1)) + text[Len(text)]

\* mutant: the pair is written footprint first
DumpSampleSwapped(sample) ==
    [type |-> "array",
     items |-> <<FloatRepr(sample[2]), FloatRepr(sample[1])>>]

\* json.dump of one (timestamp, mem) tuple: an array of its two numbers
DumpSample(sample) ==
    [type |-> "array",
     items |-> <<FloatRepr(sample[1]), FloatRepr(sample[2])>>]

\* json.dump(mem_data, f, indent=2): the list becomes an array of the
\* arrays of its tuples, in order
JsonDump(s) ==
    [type |-> "array", items |-> [i \in 1 .. Len(s) |-> DumpSample(s[i])]]

\* json.load(f): an array becomes a list, a number a float
JsonLoad(doc) ==
    [py |-> "list",
     items |-> [i \in 1 .. Len(doc.items) |->
                  [py |-> "list",
                   v |-> [j \in 1 .. Len(doc.items[i].items) |->
                            ParseFloat(doc.items[i].items[j])]]]]

\* isinstance(mem_data, list) and all(isinstance(item, list) and
\* len(item) == 2 for item in mem_data)
ValidFormat(value) ==
    /\ value.py = "list"
    /\ \A i \in 1 .. Len(value.items) :
         value.items[i].py = "list" /\ Len(value.items[i].v) = 2

\* a series handed to a reporter function by a caller: a list of tuples
AsTuples(s) == [i \in 1 .. Len(s) |-> [py |-> "tuple", v |-> s[i]]]

\* format.lower()
Lower(f) == IF f = "PNG" THEN "png" ELSE f

\* global_tracker's `if export_json:` block on its own: the file is written,
\* or an OSError is caught and logged
JsonSink ==
    /\ rpc = "call"
    /\ entry = "json_sink"
    /\ \E ok \in BOOLEAN :
         IF ok
         THEN /\ input_file' = [kind |-> "json", rows |-> <<JsonDump(series)>>]
              /\ rpc' = "convert"
         ELSE /\ input_file' = NoFile
              /\ rpc' = "done"
    /\ UNCHANGED <<besideReporter, entry, format, series, validation, rdata,
                   rfunc, parent_made, output_file, rOutcome, exit_code>>

\* convert, lines 151-161: the file is read and its format validated
ConvertLoad ==
    /\ rpc = "convert"
    /\ LET value == JsonLoad(input_file.rows[1])
       IN  IF ValidFormat(value)
           THEN /\ validation' = "accepted"
                /\ rdata' = value.items
                /\ rpc' = "dispatch"
                /\ exit_code' = exit_code
           ELSE /\ validation' = "rejected"
                /\ rdata' = rdata
                /\ rpc' = "done"
                /\ exit_code' = 1
    /\ UNCHANGED <<besideReporter, entry, format, series, input_file, rfunc,
                   parent_made, output_file, rOutcome>>

\* convert, lines 169-177: the reporter function of the format
FormatFunction(f) ==
    IF f = "png" THEN "plot_memory"
    ELSE IF f = "html" THEN "export_to_html"
    ELSE IF f = "csv" THEN "export_to_csv"
    ELSE "none"

ConvertDispatch ==
    /\ rpc = "dispatch"
    /\ rfunc' = FormatFunction(Lower(format))
    /\ IF rfunc' = "none"
       THEN rpc' = "done" /\ exit_code' = 1
       ELSE rpc' = "check_empty" /\ exit_code' = exit_code
    /\ UNCHANGED <<besideReporter, entry, format, series, input_file,
                   validation, rdata, parent_made, output_file, rOutcome>>

\* plot_memory, export_to_csv or export_to_html is called with the series
DirectCall ==
    /\ rpc = "call"
    /\ entry # "json_sink"
    /\ rfunc' = entry
    /\ rdata' = AsTuples(series)
    /\ rpc' = "check_empty"
    /\ UNCHANGED <<besideReporter, entry, format, series, input_file,
                   validation, parent_made, output_file, rOutcome, exit_code>>

\* what convert exits with when the function it called has ended: its
\* `except Exception` turns every exception into typer.Exit(1)
ExitAfter(o) ==
    IF entry = "json_sink" THEN (IF o = "return" THEN 0 ELSE 1) ELSE exit_code

\* mutant: the functions have no test for an empty series
EmptyInputIgnored(d) == FALSE

\* `if not mem_data: raise ValueError(...)`, the first statement of each of
\* the three functions
EmptyInput(d) == d = <<>>

CheckEmpty ==
    /\ rpc = "check_empty"
    /\ IF EmptyInput(rdata)
       THEN /\ rOutcome' = "ValueError"
            /\ exit_code' = ExitAfter("ValueError")
            /\ rpc' = "done"
       ELSE /\ rOutcome' = rOutcome
            /\ exit_code' = exit_code
            /\ rpc' = "write"
    /\ UNCHANGED <<besideReporter, entry, format, series, input_file,
                   validation, rdata, rfunc, parent_made, output_file>>

\* What the body of a function can do.  On an empty series zip(*mem_data)
\* gives plot_memory nothing to unpack and max(memories) has no argument in
\* export_to_html, a ValueError each; otherwise the parent directory is made
\* and the file written, or one of the two fails with OSError.
WriteOutcomes(f, d) ==
    IF d = <<>> /\ f \in {"plot_memory", "export_to_html"}
    THEN {"ValueError"}
    ELSE {"written", "mkdir_fails", "write_fails"}

WriteStep(f, content) ==
    /\ \E o \in WriteOutcomes(f, rdata) :
         /\ parent_made' = (parent_made \/ o \in {"written", "write_fails"})
         /\ output_file' = IF o = "written" THEN content ELSE output_file
         /\ rOutcome' = IF o = "written" THEN "return"
                        ELSE IF o = "ValueError" THEN "ValueError"
                        ELSE "OSError"
         /\ exit_code' = ExitAfter(rOutcome')
    /\ rpc' = "done"
    /\ UNCHANGED <<besideReporter, entry, format, series, input_file,
                   validation, rdata, rfunc>>

\* timestamps = [t for t, _ in mem_data]; memories = [m for _, m in mem_data]
Timestamps(d) == [i \in 1 .. Len(d) |-> d[i].v[1]]

Memories(d) == [i \in 1 .. Len(d) |-> d[i].v[2]]

\* plot_memory, lines 170-198
PlotSave ==
    /\ rpc = "write"
    /\ rfunc = "plot_memory"
    /\ WriteStep("plot_memory",
                 [kind |-> "png",
                  rows |-> <<Timestamps(rdata), Memories(rdata)>>])

\* export_to_csv, lines 225-234: the header, then a row per sample
CsvRows(d) ==
    <<<<"timestamp_seconds", "memory_mb">>>>
        \o [i \in 1 .. Len(d) |-> <<FloatRepr(d[i].v[1]), FloatRepr(d[i].v[2])>>]

CsvWrite ==
    /\ rpc = "write"
    /\ rfunc = "export_to_csv"
    /\ WriteStep("export_to_csv", [kind |-> "csv", rows |-> CsvRows(rdata)])

\* max(memories), min(memories), sum(memories) over the first n values
RECURSIVE MaxOf(_, _)
MaxOf(s, n) ==
    IF n = 1 THEN s[1]
    ELSE IF s[n] > MaxOf(s, n - 1) THEN s[n] ELSE MaxOf(s, n - 1)

RECURSIVE MinOf(_, _)
MinOf(s, n) ==
    IF n = 1 THEN s[1]
    ELSE IF s[n] < MinOf(s, n - 1) THEN s[n] ELSE MinOf(s, n - 1)

RECURSIVE SumOf(_, _)
SumOf(s, n) == IF n = 0 THEN 0 ELSE SumOf(s, n - 1) + s[n]

\* mutant: the delta is taken from the first sample
DeltaFromFirst(d, i) == IF i > 1 THEN d[i].v[2] - d[1].v[2] ELSE 0

\* delta = memory - mem_data[i - 1][1] if i > 0 else 0.0
Delta(d, i) == IF i > 1 THEN d[i].v[2] - d[i - 1].v[2] ELSE 0

\* f"{num / den:.2f}" and "%.2f"|format(num / den): the quotient in
\* hundredths, rounded to the nearest, a tie to the even one (den > 0)
Fixed2(num, den) ==
    LET q == (100 * num) \div den
        r == (100 * num) % den
    IN  IF 2 * r > den THEN q + 1
        ELSE IF 2 * r = den THEN q + (q % 2)
        ELSE q

\* export_to_html, lines 270-275 and 287-291: the statistics as rendered
HtmlStats(d) ==
    [peak_memory |-> Fixed2(MaxOf(Memories(d), Len(d)), 1),
     avg_memory |-> Fixed2(SumOf(Memories(d), Len(d)), Len(d)),
     min_memory |-> Fixed2(MinOf(Memories(d), Len(d)), 1),
     duration |-> Fixed2(IF Len(d) > 0 THEN Timestamps(d)[Len(d)] ELSE 0, 1),
     sample_count |-> Len(d)]

\* export_to_html, lines 278-281 and the template's table: a row per sample
TableData(d) ==
    [i \in 1 .. Len(d) |->
        [timestamp |-> Fixed2(d[i].v[1], 1),
         memory |-> Fixed2(d[i].v[2], 1),
         delta |-> Fixed2(Delta(d, i), 1)]]

HtmlWrite ==
    /\ rpc = "write"
    /\ rfunc = "export_to_html"
    /\ WriteStep("export_to_html",
                 IF rdata = <<>>
                 THEN NoFile
                 ELSE [kind |-> "html", rows |-> TableData(rdata),
                       stats |-> HtmlStats(rdata)])

ReporterNext ==
    \/ JsonSink
    \/ ConvertLoad
    \/ ConvertDispatch
    \/ DirectCall
    \/ CheckEmpty
    \/ PlotSave
    \/ CsvWrite
    \/ HtmlWrite

ReporterSpec == ReporterInit /\ [][ReporterNext]_vars

\* ------------------------------------------------------------ `memx run`
\* The run command of the CLI, from the parsing of its arguments to its exit
\* code.  The script is executed under global_tracker, whose call is taken
\* here by how it can end.
besideRunner == <<tracker, census, reporter, calls>>

ScriptVals == {"found", "missing", "vanishes"}
RunIntervalVals == -1 .. 2
RunFormatVals == {"png", "html", "csv", "json", "all", "xml", "PNG"}
ExitCodeVals == {0, 3}

RunInit ==
    /\ TrackerIdle
    /\ CensusIdle
    /\ ReporterIdle
    /\ CallsIdle
    /\ script \in ScriptVals
    /\ spec_loader \in BOOLEAN
    /\ run_interval \in RunIntervalVals
    /\ run_format \in RunFormatVals
    /\ program = "not_run" /\ tracked = "pending"
    /\ exports = {} /\ upc = "parse" /\ run_exit = -1

\* typer.Argument(exists=True): a script that is not there ends the command
\* with a usage error, exit code 2, before the body of run
ParseArguments ==
    /\ upc = "parse"
    /\ IF script = "missing"
       THEN upc' = "done" /\ run_exit' = 2
       ELSE upc' = "check_script" /\ run_exit' = run_exit
    /\ UNCHANGED <<besideRunner, script, spec_loader, run_interval,
                   run_format, program, tracked, exports>>

\* `if not script.exists(): raise typer.Exit(1)`
CheckScript ==
    /\ upc = "check_script"
    /\ IF script = "vanishes"
       THEN upc' = "done" /\ run_exit' = 1
       ELSE upc' = "check_interval" /\ run_exit' = run_exit
    /\ UNCHANGED <<besideRunner, script, spec_loader, run_interval,
                   run_format, program, tracked, exports>>

\* `if interval <= 0: raise typer.Exit(1)`
CheckInterval ==
    /\ upc = "check_interval"
    /\ IF run_interval <= 0
       THEN upc' = "done" /\ run_exit' = 1
       ELSE upc' = "exports" /\ run_exit' = run_exit
    /\ UNCHANGED <<besideRunner, script, spec_loader, run_interval,
                   run_format, program, tracked, exports>>

\* lines 79-87: the keys of the exports dict for a --format
ExportsOf(f) ==
    {x \in {"png", "html", "csv", "json"} : Lower(f) \in {x, "all"}}

BuildExports ==
    /\ upc = "exports"
    /\ exports' = ExportsOf(run_format)
    /\ upc' = "load"
    /\ UNCHANGED <<besideRunner, script, spec_loader, run_interval,
                   run_format, program, tracked, run_exit>>

\* lines 95-101: without a spec or a loader typer.Exit(1) is raised inside
\* the try; Exit is a RuntimeError, so `except Exception` takes it and
\* raises typer.Exit(1) again
LoadScript ==
    /\ upc = "load"
    /\ IF spec_loader
       THEN upc' = "execute" /\ tracked' = tracked
       ELSE upc' = "after" /\ tracked' = "Exception"
    /\ UNCHANGED <<besideRunner, script, spec_loader, run_interval,
                   run_format, program, exports, run_exit>>

\* How the call of execute_script under global_tracker can end, by what the
\* script does.  psutil.Process may fail before the script is run.  When the
\* script completes, the wrapper returns, or a JSON or CSV sink lets an
\* exception that is no OSError through.  An exception of the script passes
\* the wrapper's try/finally, and so does the SystemExit of sys.exit(code).
TrackedEnds ==
    {[program |-> "not_run", tracked |-> "Exception", code |-> -1],
     [program |-> "completes", tracked |-> "return", code |-> -1],
     [program |-> "raises", tracked |-> "Exception", code |-> -1]}
    \cup {[program |-> "completes", tracked |-> "Exception", code |-> -1] :
            x \in exports \cap {"json", "csv"}}
    \cup {[program |-> "exits", tracked |-> "SystemExit", code |-> c] :
            c \in ExitCodeVals}

\* lines 104-113: execute_script()
ExecuteScript ==
    /\ upc = "execute"
    /\ \E e \in TrackedEnds :
         /\ program' = e.program
         /\ tracked' = e.tracked
         /\ run_exit' = e.code
    /\ upc' = "after"
    /\ UNCHANGED <<besideRunner, script, spec_loader, run_interval,
                   run_format, exports>>

\* lines 116-121: the note about HTML and "Profiling complete!"
RunCompletes ==
    /\ upc = "after"
    /\ tracked = "return"
    /\ run_exit' = 0
    /\ upc' = "done"
    /\ UNCHANGED <<besideRunner, script, spec_loader, run_interval,
                   run_format, program, tracked, exports>>

\* lines 123-127: `except Exception` ... raise typer.Exit(1)
RunFails ==
    /\ upc = "after"
    /\ tracked = "Exception"
    /\ run_exit' = 1
    /\ upc' = "done"
    /\ UNCHANGED <<besideRunner, script, spec_loader, run_interval,
                   run_format, program, tracked, exports>>

\* a SystemExit is no Exception: it leaves run and ends the process with
\* its code
RunExits ==
    /\ upc = "after"
    /\ tracked = "SystemExit"
    /\ upc' = "done"
    /\ UNCHANGED <<besideRunner, script, spec_loader, run_interval,
                   run_format, program, tracked, exports, run_exit>>

RunNext ==
    \/ ParseArguments
    \/ CheckScript
    \/ CheckInterval
    \/ BuildExports
    \/ LoadScript
    \/ ExecuteScript
    \/ RunCompletes
    \/ RunFails
    \/ RunExits

RunSpec == RunInit /\ [][RunNext]_vars

\* ------------------------------------------- several calls of one wrapper
\* MaxCalls calls of one decorated function, in any interleaving: one after
\* the other or at the same time.  No max_duration is set and every reading
\* of the footprint succeeds, so a monitor ends only by its loop test.
besideCalls == <<tracker, census, reporter, runner>>

CallsInit ==
    /\ TrackerIdle
    /\ CensusIdle
    /\ ReporterIdle
    /\ RunnerIdle
    /\ CallsIdle

\* mutant: mem_data and stop_event are made once, by the first call
CellShared(c) == 1

\* mem_data and stop_event are locals of wrapper and monitor is defined
\* inside it: the monitor of a call is closed over that call's objects
Cell(c) == c

\* wrapper, lines 69-71 (229-230): the call makes its list and its event
Invoke(c) ==
    /\ call_pc[c] = "idle"
    /\ mem_data_of' = [mem_data_of EXCEPT ![c] = <<>>]
    /\ stop_event_of' = [stop_event_of EXCEPT ![c] = FALSE]
    /\ call_pc' = [call_pc EXCEPT ![c] = "start"]
    /\ UNCHANGED <<besideCalls, thread_of>>

\* lines 98-99 (246-247): thread = Thread(target=monitor); thread.start()
StartMonitor(c) ==
    /\ call_pc[c] = "start"
    /\ thread_of' = [thread_of EXCEPT ![c] = "running"]
    /\ call_pc' = [call_pc EXCEPT ![c] = "work"]
    /\ UNCHANGED <<besideCalls, mem_data_of, stop_event_of>>

\* one turn of the monitor loop of call c: a sample, marked here by the
\* call whose monitor took it, is appended to the list of its closure
TakeSample(c) ==
    /\ thread_of[c] = "running"
    /\ ~stop_event_of[Cell(c)]
    /\ Len(mem_data_of[Cell(c)]) < MaxSamples
    /\ mem_data_of' = [mem_data_of EXCEPT ![Cell(c)] = Append(@, c)]
    /\ UNCHANGED <<besideCalls, call_pc, stop_event_of, thread_of>>

\* `while not stop_event.is_set()` ends the loop
MonitorEnds(c) ==
    /\ thread_of[c] = "running"
    /\ stop_event_of[Cell(c)]
    /\ thread_of' = [thread_of EXCEPT ![c] = "ended"]
    /\ UNCHANGED <<besideCalls, call_pc, mem_data_of, stop_event_of>>

\* func(*args, **kwargs) returns or raises
WorkEnds(c) ==
    /\ call_pc[c] = "work"
    /\ call_pc' = [call_pc EXCEPT ![c] = "stop"]
    /\ UNCHANGED <<besideCalls, mem_data_of, stop_event_of, thread_of>>

\* finally: stop_event.set()
StopMonitor(c) ==
    /\ call_pc[c] = "stop"
    /\ stop_event_of' = [stop_event_of EXCEPT ![Cell(c)] = TRUE]
    /\ call_pc' = [call_pc EXCEPT ![c] = "join"]
    /\ UNCHANGED <<besideCalls, mem_data_of, thread_of>>

\* thread.join(...): the thread has ended, or (track_memory) the timeout
\* has passed
JoinMonitor(c) ==
    /\ call_pc[c] = "join"
    /\ thread_of[c] \in {"ended", "running"}
    /\ call_pc' = [call_pc EXCEPT ![c] = "done"]
    /\ UNCHANGED <<besideCalls, mem_data_of, stop_event_of, thread_of>>

CallsNext ==
    \E c \in Calls :
        \/ Invoke(c)
        \/ StartMonitor(c)
        \/ TakeSample(c)
        \/ MonitorEnds(c)
        \/ WorkEnds(c)
        \/ StopMonitor(c)
        \/ JoinMonitor(c)

CallsSpec == CallsInit /\ [][CallsNext]_vars

\* ------------------------------------------------------------- claims

\* C1: when the unit of work raises, the caller of the wrapper observes that
\* failure, and only after the stop event was set and the join attempted.
C1_WorkFailureObserved ==
    (opc = "done" /\ workOutcome = "raised")
        => (outcome = "WorkFailure" /\ stop_event /\ joinAttempted)

\* C2: interval <= 0, or for track_memory a duration that is not None and
\* <= 0, fails with ValueError at construction; the monitor thread is never
\* started and the unit of work never invoked.
InvalidConfiguration ==
    \/ interval <= 0
    \/ kind = "track_memory" /\ duration # <<>> /\ duration[1] <= 0

C2_InvalidConfigFailsFirst ==
    InvalidConfiguration =>
        /\ spc = "idle"
        /\ workCalls = 0
        /\ opc \in {"decorate", "done"}
        /\ opc = "done" => outcome = "ValueError"

\* C2 witness: a construction that has failed with ValueError on interval 0.
C2_Witness == opc = "done" /\ outcome = "ValueError" /\ interval = 0

\* C3: once the unit of work has returned or raised, the tracked call
\* eventually returns or raises to its caller, whatever the monitor thread
\* does: the join waits at most JoinTimeout and the wrapper goes on.
C3_CallEventuallyEnds == (workOutcome # "none") ~> (opc = "done")

\* C3 witness: the call is over although the join timed out and the monitor
\* thread is still alive.
C3_Witness == opc = "done" /\ joinTimedOut /\ IsAlive

\* C4: from the moment track_memory returns memory_usage, or global_tracker
\* starts reading the series for export, no sample is appended to the series.
C4_NoAppendAfterHandOff == [][handedOff => mem_data' = mem_data]_vars

\* C5: every track_memory call that returns normally returns a series with
\* at least one sample.
C5_ReturnedSeriesNonEmpty ==
    (kind = "track_memory" /\ outcome = "return")
        => Len(returned.memory_usage) >= 1

\* C6: if the unit of work ran longer than one interval, the series the
\* tracked call returns has at least one sample.
C6_LongWorkHasSample ==
    (kind = "track_memory" /\ outcome = "return" /\ longWork)
        => Len(returned.memory_usage) >= 1

\* C7: the series is ordered by timestamp, every timestamp is >= 0, and a
\* sample once appended is never removed or changed.
SeriesOrdered ==
    \A i \in 1 .. Len(mem_data) :
        /\ mem_data[i][1] >= 0
        /\ i > 1 => mem_data[i][1] >= mem_data[i - 1][1]

SeriesKept ==
    /\ Len(mem_data') >= Len(mem_data)
    /\ SubSeq(mem_data', 1, Len(mem_data)) = mem_data

C8_DurationEndsSampling ==
    (kind = "track_memory" /\ duration # <<>>) =>
        /\ \A i \in 1 .. Len(mem_data) - 1 : mem_data[i][1] < duration[1]
        /\ (spc \in {"sleep", "check", "read"} /\ mem_data # <<>>)
               => timestamp < duration[1]
        /\ (opc = "done" /\ workOutcome = "returned" /\ monitor_error = "None")
               => (outcome = "return" /\ returned.result = result)

\* C8 witness: the monitor has ended on the duration test while the stop
\* event is not set and the unit of work is still running.
C8_Witness ==
    /\ kind = "track_memory" /\ duration # <<>>
    /\ spc = "done" /\ ~stop_event /\ opc = "work"
    /\ monitor_error = "None"
    /\ mem_data # <<>> /\ timestamp >= duration[1]

\* C9: with duration D configured and a unit of work that runs longer than
\* D, every recorded timestamp is at most D plus the time of the read that
\* produced it.  ReadTime counts as the read all the time since the sample
\* before it except the interval slept (so whatever else delays the monitor
\* is not held against the claim); the first sample is read from the start.
ReadTime ==
    IF mem_data = <<>>
    THEN Last(mem_data')[1]
    ELSE Last(mem_data')[1] - (timestamp + interval)

C9_OvershootOneRead ==
    [][(/\ kind = "track_memory" /\ duration # <<>>
        /\ opc = "work" /\ workRan > duration[1]
        /\ Len(mem_data') = Len(mem_data) + 1)
          => Last(mem_data')[1] <= duration[1] + ReadTime]_vars

\* C10: a callback that raises does not end the sampling and does not fail
\* the call: the monitor records no error and goes on to the duration test,
\* and the call returns the result of the unit of work.
CallbackRaisedNow == Len(cbLog') > Len(cbLog) /\ Last(cbLog').raised

CallbackLag == Len(mem_data) - Len(cbLog)

CallbacksFollowSeries ==
    /\ CallbackLag \in {0, 1}
    /\ \A i \in 1 .. Len(cbLog) : cbLog[i].args = mem_data[i]
    /\ (CallbackLag = 1) <=> (spc \in {"callback"})

ReadFailsNow == kind = "track_memory" /\ spc = "read" /\ spc' = "done"

C12_ReadFailureSurfaced ==
    /\ [][ReadFailsNow
            => (/\ monitor_error' # "None"
                /\ mem_data' = mem_data
                /\ opc' = opc /\ workOutcome' = workOutcome
                /\ workCalls' = workCalls)]_vars
    /\ []((kind = "track_memory" /\ readFailed)
            => (spc = "done" /\ monitor_error # "None"))
    /\ [][(kind = "track_memory" /\ readFailed) => mem_data' = mem_data]_vars
    /\ []((/\ kind = "track_memory" /\ readFailed /\ ~joinTimedOut
           /\ opc = "done" /\ workOutcome = "returned")
            => (/\ outcome = "RuntimeError" /\ returned = NoReturn
                /\ stop_event /\ joinAttempted))

\* C12 witness: the second read failed while the unit of work was running,
\* the unit of work then returned and the call raised RuntimeError.
C12_Witness ==
    /\ kind = "track_memory" /\ readFailed /\ Len(mem_data) = 1
    /\ opc = "done" /\ workOutcome = "returned" /\ outcome = "RuntimeError"
    /\ longWork

\* C13: when the monitor has recorded a fatal failure and the unit of work
\* raises too, the caller observes the failure of the unit of work, never
\* the RuntimeError of the tracker.
C13_WorkFailureTakesPrecedence ==
    (monitor_error # "None" /\ workOutcome = "raised" /\ opc = "done")
        => outcome = "WorkFailure"

\* C13 witness: a call that raised the failure of the unit of work although
\* the monitor had recorded a failure of its own.
C13_Witness ==
    /\ monitor_error # "None" /\ readFailed /\ workOutcome = "raised"
    /\ opc = "done" /\ outcome = "WorkFailure"

\* C14: in global_tracker, when the monitor failed reading the footprint and
\* the unit of work succeeded, the caller is given a RuntimeError (calls in
\* which an export sink's own exception reaches the caller are left aside).
C14_GlobalReadFailureSurfaced ==
    (/\ kind = "global_tracker" /\ readFailed /\ ~joinTimedOut
     /\ opc = "done" /\ workOutcome = "returned"
     /\ outcome # "SinkFailure")
        => outcome = "RuntimeError"

\* C15: with analyze_gc, a call that returns normally returns an aggregate
\* with live_objects: the census, or an empty mapping when the census raised;
\* a census failure does not reach the caller and the aggregate keeps result
\* and memory_usage.
CensusFailsNow == opc = "census" /\ live_objects' = "empty"

C15_CensusFailureContained ==
    /\ []((kind = "track_memory" /\ analyze_gc /\ outcome = "return")
            => (/\ returned.shape = "aggregate"
                /\ returned.live_objects \in {"census", "empty"}
                /\ returned.result = result))
    /\ [][CensusFailsNow => (opc' = "return" /\ outcome' = outcome)]_vars
    /\ [][(opc = "return" /\ opc' = "done")
            => (outcome' = "return" /\ returned'.memory_usage = mem_data)]_vars

\* C15 witness: the census raised and the call returned the aggregate with an
\* empty live_objects, the result and a non-empty series.
C15_Witness ==
    /\ analyze_gc /\ outcome = "return"
    /\ returned.live_objects = "empty" /\ returned.result = result
    /\ returned.memory_usage # <<>>

\* the sinks the decorator was configured with
ConfiguredSinks ==
    (IF export_png THEN {"png"} ELSE {})
        \cup (IF export_json THEN {"json"} ELSE {})
        \cup (IF export_csv THEN {"csv"} ELSE {})

\* C16: when the unit of work fails the caller observes the failure, and the
\* series sampled so far is handed to the caller (track_memory) or to every
\* configured sink (global_tracker).
C16_SeriesKeptOnWorkFailure ==
    (opc = "done" /\ workOutcome = "raised")
        => /\ outcome = "WorkFailure"
           /\ IF kind = "track_memory"
              THEN handedOff
              ELSE sinkTried = ConfiguredSinks

\* C17: global_tracker returns the value the unit of work returned, not the
\* series; a sink is attempted only after the unit of work is over, the stop
\* event set and the join attempted; a sink that is not configured is never
\* attempted and no file is written for it.
C17_GlobalReturnsValueSinksLast ==
    kind = "global_tracker" =>
        /\ outcome = "return"
             => (returned.shape = "value" /\ returned.result = result)
        /\ sinkTried # {}
             => (workOutcome # "none" /\ stop_event /\ joinAttempted)
        /\ sinkTried \subseteq ConfiguredSinks
        /\ files \subseteq sinkTried

\* C17 witness: a call with the JSON and CSV sinks only that has written both
\* files and returned the value of the unit of work.
C17_Witness ==
    /\ kind = "global_tracker" /\ outcome = "return"
    /\ returned.result = result
    /\ ConfiguredSinks = {"json", "csv"} /\ files = {"json", "csv"}

\* C18: in global_tracker every configured sink is attempted, whatever error
\* another sink raised.
C18_EverySinkAttempted ==
    (kind = "global_tracker" /\ opc = "done" /\ workOutcome # "none")
        => sinkTried = ConfiguredSinks

\* C19: in global_tracker a failing sink does not change what the caller
\* observes: the value the unit of work returned, or the failure it raised.
C19_SinkFailureInvisible ==
    (kind = "global_tracker" /\ opc = "done" /\ sinkTried # {})
        => /\ workOutcome = "returned"
                => (outcome = "return" /\ returned.result = result)
           /\ workOutcome = "raised" => outcome = "WorkFailure"

\* C20: analyze_live_objects raises ValueError for every negative
\* min_size_kb, before it takes the list of objects, and accepts every
\* min_size_kb >= 0, 0 included: such a call returns its mapping.
C20_NegativeThresholdRejected ==
    /\ min_size_kb < 0
         => (/\ apc \in {"validate", "done"}
             /\ objects = <<>> /\ idx = 0 /\ stats = NoStats
             /\ apc = "done" => aOutcome = "ValueError")
    /\ min_size_kb >= 0
         => (/\ aOutcome # "ValueError"
             /\ apc = "done" => aOutcome = "return")

\* C20 witness: a call with a negative min_size_kb on a heap that is not
\* empty has ended with ValueError.
C20_Witness ==
    /\ min_size_kb < 0 /\ heap # <<>>
    /\ apc = "done" /\ aOutcome = "ValueError"

\* the sum of the sizes of the objects of the heap with type name t whose
\* size could be taken, and their number
RECURSIVE SizedBytes(_, _, _)
SizedBytes(h, n, t) ==
    IF n = 0
    THEN 0
    ELSE SizedBytes(h, n - 1, t)
         + (IF h[n].type_name = t /\ ~h[n].raises THEN h[n].size ELSE 0)

Returned == apc = "done" /\ aOutcome = "return"

\* C21: analyze_live_objects returns an entry for a type name exactly when
\* the sized objects of that type name sum to more than min_size_kb
\* kilobytes; a type at or below the threshold has no entry.
C21_EntryIffAboveThreshold ==
    Returned =>
        /\ DOMAIN analysis \subseteq TypeNames
        /\ \A t \in TypeNames :
             (t \in DOMAIN analysis)
                 <=> (SizedBytes(heap, Len(heap), t) > min_size_kb * 1024)

\* C21 witness: with min_size_kb = 1 the lists sum to exactly 1024 bytes and
\* have no entry, the dicts sum to more and have one.
C21_Witness ==
    /\ Returned /\ min_size_kb = 1
    /\ SizedBytes(heap, Len(heap), "list") = 1024
    /\ DOMAIN analysis = {"dict"}

\* C22: on one heap the result is monotone in the threshold: every entry
\* returned for the threshold min_size_kb is returned, with the same count
\* and total_size_kb, for every threshold a with 0 <= a <= min_size_kb.
C22_MonotoneInThreshold ==
    Returned =>
        /\ analysis = AnalyzeLiveObjects(heap, min_size_kb)
        /\ \A a \in 0 .. min_size_kb :
             \A t \in DOMAIN analysis :
                 /\ t \in DOMAIN AnalyzeLiveObjects(heap, a)
                 /\ AnalyzeLiveObjects(heap, a)[t] = analysis[t]

\* C22 witness: a call with min_size_kb = 2 has returned one entry, and
\* min_size_kb = 0 returns two on the same heap.
C22_Witness ==
    /\ Returned /\ min_size_kb = 2
    /\ Cardinality(DOMAIN analysis) = 1
    /\ Cardinality(DOMAIN AnalyzeLiveObjects(heap, 0)) = 2

\* C23: every entry returned has count > 0 and total_size_kb > 0.
C23_EntriesPositive ==
    Returned =>
        \A t \in DOMAIN analysis :
            analysis[t].count > 0 /\ analysis[t].total_size_kb > 0

\* C23 witness: with min_size_kb = 0 a single object of 16 bytes is reported
\* with count 1 and total_size_kb 0.02.
C23_Witness ==
    /\ Returned /\ min_size_kb = 0
    /\ "list" \in DOMAIN analysis
    /\ analysis["list"] = [count |-> 1, total_size_kb |-> 2]

\* C25: when the series of a global_tracker call is empty, no configured
\* sink leaves a file at its export path.
C25_EmptySeriesNoFile ==
    (kind = "global_tracker" /\ mem_data = <<>>) => files = {}

\* C30: the stop event is a one-shot flag: it is not set when the monitor
\* thread is started, no step of the monitor writes it, it is set on every
\* path out of the unit of work before anything else is done, and once set
\* it stays set.
C30_StopEventOneShot ==
    /\ [][spc' # spc /\ spc = "idle" => ~stop_event /\ ~stop_event']_vars
    /\ [][MonitorNext => stop_event' = stop_event]_vars
    /\ [][Tick => stop_event' = stop_event]_vars
    /\ [][stop_event => stop_event']_vars
    /\ [](stop_event => workOutcome # "none")
    /\ []((workOutcome # "none" /\ opc # "finally") => stop_event)

\* C30 witness: a call whose unit of work raised has ended with the stop
\* event set.
C30_Witness ==
    /\ opc = "done" /\ workOutcome = "raised" /\ stop_event
    /\ outcome = "WorkFailure"

\* C24: plot_memory, export_to_csv and export_to_html, given an empty
\* series, fail with ValueError, and neither the output file nor its parent
\* directory is ever made.
C24_EmptySeriesRaisesValueError ==
    (rfunc # "none" /\ rdata = <<>>) =>
        /\ parent_made = FALSE
        /\ output_file.kind = "none"
        /\ rpc \in {"check_empty", "done"}
        /\ (rpc = "done" => rOutcome = "ValueError")

C24_Witness ==
    /\ rpc = "done"
    /\ entry = "export_to_csv"
    /\ rfunc = "export_to_csv"
    /\ rdata = <<>>
    /\ rOutcome = "ValueError"

\* C26: the file of the JSON sink is an array, in series order, of the
\* two-element arrays of the samples; read back it has as many samples, in
\* the same order, with equal timestamps and footprints, and convert's
\* format validation accepts it.
C26_JsonRoundTrip ==
    input_file.kind = "json" =>
        LET doc == input_file.rows[1]
            back == JsonLoad(doc)
        IN  /\ doc.type = "array"
            /\ Len(doc.items) = Len(series)
            /\ \A i \in 1 .. Len(doc.items) :
                 doc.items[i].type = "array" /\ Len(doc.items[i].items) = 2
            /\ Len(back.items) = Len(series)
            /\ \A i \in 1 .. Len(series) :
                 /\ back.items[i].v[1] = series[i][1]
                 /\ back.items[i].v[2] = series[i][2]
            /\ validation # "rejected"
            /\ validation = "accepted" =>
                 /\ Len(rdata) = Len(series)
                 /\ \A i \in 1 .. Len(series) :
                      rdata[i].v[1] = series[i][1] /\ rdata[i].v[2] = series[i][2]

C26_Witness ==
    /\ input_file.kind = "json"
    /\ validation = "accepted"
    /\ Len(series) >= 2
    /\ series[1] # series[2]
    /\ Len(rdata) = Len(series)

\* C27: the report of export_to_html for a non-empty series shows (to two
\* decimals) the largest footprint as peak, the smallest as minimum,
\* sum / len as average, the last timestamp as duration and len as sample
\* count, and a table row per sample in series order whose delta is 0 in the
\* first row and the footprint less the footprint of the row before in the
\* others.
C27_HtmlStatistics ==
    output_file.kind = "html" =>
        LET n == Len(series)
            footprint == [i \in 1 .. n |-> series[i][2]]
            st == output_file.stats
            rows == output_file.rows
            off == st.avg_memory * n - 100 * SumOf(footprint, n)
        IN  /\ n > 0
            /\ \E i \in 1 .. n : st.peak_memory = 100 * footprint[i]
            /\ \A i \in 1 .. n : st.peak_memory >= 100 * footprint[i]
            /\ \E i \in 1 .. n : st.min_memory = 100 * footprint[i]
            /\ \A i \in 1 .. n : st.min_memory <= 100 * footprint[i]
            /\ 2 * off <= n /\ -2 * off <= n
            /\ st.duration = 100 * series[n][1]
            /\ st.sample_count = n
            /\ Len(rows) = n
            /\ \A i \in 1 .. n :
                 /\ rows[i].timestamp = 100 * series[i][1]
                 /\ rows[i].memory = 100 * footprint[i]
                 /\ rows[i].delta =
                      IF i = 1 THEN 0
                      ELSE 100 * (footprint[i] - footprint[i - 1])

C27_Witness ==
    /\ output_file.kind = "html"
    /\ Len(series) >= 3
    /\ series[1][2] # series[2][2]
    /\ series[3][1] < series[2][1]

\* the --interval or the --format of the run command is not an allowed one
ConfigurationError ==
    \/ run_interval <= 0
    \/ Lower(run_format) \notin {"png", "html", "csv", "json", "all"}

\* C28: the run command ends with a non-zero exit code on every
\* configuration error (an interval that is not positive, a format outside
\* png|html|csv|json|all), when the script is missing and when the program
\* raised an exception nobody caught; it ends with zero only when the
\* program ran to its end.
C28_RunExitCode ==
    upc = "done" =>
        /\ (ConfigurationError \/ script # "found" \/ program = "raises")
               => run_exit # 0
        /\ run_exit = 0 => program \in {"completes", "exits"}

\* C29: every call of a wrapper starts with a list, an event and a monitor
\* of its own; only a call's own wrapper sets its stop event, a monitor ends
\* only once the event of its own call is set, and every sample in a call's
\* list was taken by that call's monitor.
C29_CallsIndependent ==
    /\ [][\A c \in Calls :
            (call_pc[c] = "idle" /\ call_pc'[c] # "idle") =>
                /\ mem_data_of'[c] = <<>>
                /\ ~stop_event_of'[c]
                /\ thread_of'[c] = "none"]_vars
    /\ [][\A c \in Calls :
            (~stop_event_of[c] /\ stop_event_of'[c]) =>
                (call_pc[c] = "stop" /\ call_pc'[c] = "join")]_vars
    /\ [](\A c \in Calls :
            thread_of[c] = "ended" =>
                (stop_event_of[c] /\ call_pc[c] \in {"join", "done"}))
    /\ [](\A c \in Calls :
            \A i \in 1 .. Len(mem_data_of[c]) : mem_data_of[c][i] = c)

C29_Witness ==
    /\ call_pc[1] = "done"
    /\ thread_of[1] = "ended"
    /\ stop_event_of[1]
    /\ mem_data_of[1] # <<>>
    /\ call_pc[2] = "work"
    /\ thread_of[2] = "running"
    /\ ~stop_event_of[2]
    /\ mem_data_of[2] # <<>>

\* C31: the monitor tests the stop event once per turn of its loop: with the
\* event set it appends at most one more sample, the one whose reading had
\* begun, and once it has seen the event set it has ended, appends nothing
\* and calls no callback.
C31_CooperativeCancellation ==
    /\ [](lateSamples <= 1)
    /\ [][(stop_event /\ mem_data' # mem_data) => spc = "read"]_vars
    /\ [][(stop_event /\ spc # "read") => spc' # "read"]_vars
    /\ [][(spc = "check" /\ stop_event /\ spc' # spc) => spc' = "done"]_vars
    /\ [][spc = "done" =>
            (spc' = "done" /\ mem_data' = mem_data /\ cbLog' = cbLog)]_vars

C31_Witness ==
    /\ stop_event
    /\ spc = "done"
    /\ lateSamples = 1
    /\ callback
    /\ Len(cbLog) = Len(mem_data)

\* the time the monitor has spent, with the stop event set, in anything
\* but the reading of the footprint: in a callback (one unit at least once
\* time has passed there) and asleep
LateBeyondRead == lateSleep + (IF lateCallback THEN 1 ELSE 0)

\* C32: from the setting of the stop event to the end of the monitor there
\* is at most one sleep of interval and the time of one reading; nothing
\* else the monitor does, a callback for one, adds to that.
C32_StopLatencyBounded == stop_event => LateBeyondRead <= interval

\* C33: when the monitor thread is scheduled and every reading and every
\* callback returns, the monitor ends once the stop event is set, and ends
\* once the duration test finds the cap reached; a monitor that is still
\* alive when the call is over ends as well.
C33_MonitorEventuallyEnds ==
    /\ stop_event ~> (spc = "done")
    /\ (spc = "durcheck" /\ DurationReached(duration, timestamp))
           ~> (spc = "done")
    /\ (opc = "done" /\ IsAlive) ~> ~IsAlive

C33_Witness ==
    /\ opc = "done"
    /\ joinTimedOut
    /\ stop_event
    /\ spc = "done"
    /\ mem_data # <<>>

\* the number of the objects h[1 .. n] with type name t whose size could be
\* taken
RECURSIVE SizedCount(_, _, _)
SizedCount(h, n, t) ==
    IF n = 0
    THEN 0
    ELSE SizedCount(h, n - 1, t)
         + (IF h[n].type_name = t /\ ~h[n].raises THEN 1 ELSE 0)

\* C34: an object whose size cannot be taken is skipped and the census goes
\* on: at every point of the loop the count and the byte sum of a type are
\* those of the sized objects passed so far, the call returns after the last
\* object, and the count of every returned type is the number of the sized
\* objects of that type name.
C34_UnsizedObjectsSkipped ==
    /\ apc = "loop" =>
         /\ \A t \in DOMAIN stats :
              /\ stats[t].count = SizedCount(objects, idx - 1, t)
              /\ stats[t].total_size = SizedBytes(objects, idx - 1, t)
         /\ \A t \in TypeNames \ DOMAIN stats :
              SizedCount(objects, idx - 1, t) = 0
    /\ (apc = "done" /\ min_size_kb >= 0) =>
         /\ aOutcome = "return"
         /\ idx = Len(heap) + 1
         /\ \A t \in DOMAIN analysis :
              analysis[t].count = SizedCount(heap, Len(heap), t)

C34_Witness ==
    /\ Returned
    /\ Len(heap) = 3
    /\ heap[1].raises /\ heap[1].type_name = "list"
    /\ ~heap[2].raises /\ heap[2].type_name = "list"
    /\ heap[3].raises /\ heap[3].type_name = "dict"
    /\ DOMAIN analysis = {"list"}
    /\ analysis["list"].count = 1

\* C35: in one tracked call the unit of work is called once and no more,
\* by a step of the wrapper, with the monitor thread started; a call that
\* got as far as starting the thread has called it exactly once when it is
\* over, whatever failed: the unit of work, the monitor, the census or a
\* sink.
C35_WorkCalledOnce ==
    /\ [](workCalls <= 1)
    /\ [][workCalls' # workCalls =>
            /\ workCalls' = workCalls + 1
            /\ opc = "call" /\ opc' = "work"
            /\ spc # "idle" /\ spc' = spc]_vars
    /\ []((opc = "done" /\ spc # "idle") => workCalls = 1)
    /\ []((opc = "done" /\ spc = "idle") => workCalls = 0)

C35_Witness ==
    /\ opc = "done"
    /\ kind = "track_memory"
    /\ outcome = "WorkFailure"
    /\ readFailed
    /\ workCalls = 1

\* the wrapper has ended in psutil.Process(): no thread was ever started
AcquireFailed == opc = "done" /\ spc = "idle" /\ outcome = "RuntimeError"

\* C36: when psutil.Process() raises NoSuchProcess or AccessDenied the
\* wrapper raises RuntimeError at once, and in that call no monitor thread
\* is started, the unit of work is not called and no sink is attempted or
\* written.
C36_AcquireFailureStartsNothing ==
    /\ [][(opc = "wrapper" /\ opc' \notin {"wrapper", "start"}) =>
            (opc' = "done" /\ outcome' = "RuntimeError")]_vars
    /\ [](AcquireFailed =>
            /\ workCalls = 0 /\ workOutcome = "none"
            /\ sinkTried = {} /\ files = {}
            /\ mem_data = <<>> /\ ~stop_event)
    /\ [][AcquireFailed => AcquireFailed']_vars

C36_Witness ==
    /\ AcquireFailed
    /\ kind = "global_tracker"
    /\ export_png /\ export_json /\ export_csv

====
